---- MODULE Spec2Model ----
(***************************************************************************)
(* The walk-request lifecycle of little-walk-backend: the service verbs of *)
(* src/core/service.rs over the walk_requests collection, with the filter  *)
(* and update documents built by src/repositories/mongodb.rs and MongoDB's *)
(* semantics for them (one filter-guarded update is atomic; an operator    *)
(* with no field is a no-op; modified_count counts the documents whose     *)
(* content changed).                                                       *)
(***************************************************************************)
EXTENDS Integers, Sequences, FiniteSets, TLC

\* Option<T>: None is the empty sequence, Some(x) the one-element sequence.
None == <<>>

Some(x) == <<x>>

IsSome(o) == o # None

\* The walkers (user ids) and the request ids (_id) that are in play. An id
\* is either present in the collection or absent from it.
WalkerOrder == <<"X", "Y", "Z">>

Walkers == {WalkerOrder[k] : k \in 1..Len(WalkerOrder)}

Ids == {"A"}

\* The dog owner who posts the requests the lifecycle verbs act on, and the
\* owners whose requests the listings tell apart.
Owner == "O"

Owners == {Owner, "P"}

\* Values of Utc::now(): the wall clock is read anew by every verb.
MaxClock == 2

Times == 1..MaxClock

\* The largest bid pool a pre-existing document carries.
MaxPool == 2

\* The largest skip and the largest limit a listing is asked for.
MaxSkip == 2

MaxLimit == 2

\* The most location samples recorded.
MaxLocations == 2

\* The northernmost latitude, in grid steps, of a request or of the origin
\* of a proximity query; also the largest radius asked for.
MaxPlace == 2

Places == 0..MaxPlace

VARIABLES
    walk_requests,  \* the collection: a function from the ids present to documents
    last,           \* the most recent service call and what it returned
    calls,          \* invocations in flight (a call between entry and return)
    dogs,           \* the "dogs" collection: a function from the ids present to Dog documents
    walking_locations   \* the "walking_locations" collection, in insertion order

vars == <<walk_requests, last, calls, dogs, walking_locations>>

-----------------------------------------------------------------------------
(* Documents, queries and updates *)

\* A Dog as the service hands it around: the id and the fields of the
\* record (name and owner_id stand for all of them).
Dog(id, name, owner_id) == [id |-> id, name |-> name, owner_id |-> owner_id]

\* From<Dog> for Bson: the Dog serialized field by field, its id moved to
\* the key _id.
DogBson(value) ==
    [_id |-> value.id, name |-> value.name, owner_id |-> value.owner_id]

\* A WalkRequestCreate: the dogs as the caller passes them (Dog values, not
\* references), the place of the walk and the owner.
WalkRequestCreate(dog_values, longitude, latitude, created_by) ==
    [dogs |-> dog_values, longitude |-> longitude, latitude |-> latitude,
     created_by |-> created_by]

\* A created document that is stamped as started at once.
WalkRequestCreateDocument_Started(value, now) ==
    [accepted_by |-> None, accepted_at |-> None, canceled_at |-> None,
     started_at |-> Some(now), finished_at |-> None, acceptances |-> None,
     dogs |-> [k \in DOMAIN value.dogs |-> DogBson(value.dogs[k])],
     location |-> [type |-> "Point",
                   coordinates |-> <<value.longitude, value.latitude>>],
     created_by |-> value.created_by, created_at |-> now]

\* The document create_walk_request inserts: dogs, the GeoJSON point
\* [longitude, latitude] and created_by from the request, created_at from
\* the clock, and no claim, no bid pool, no lifecycle timestamp
\* (From<WalkRequestCreate> writes none of these fields).
WalkRequestCreateDocument(value, now) ==
    [accepted_by |-> None, accepted_at |-> None, canceled_at |-> None,
     started_at |-> None, finished_at |-> None, acceptances |-> None,
     dogs |-> [k \in DOMAIN value.dogs |-> DogBson(value.dogs[k])],
     location |-> [type |-> "Point",
                   coordinates |-> <<value.longitude, value.latitude>>],
     created_by |-> value.created_by, created_at |-> now]

\* WalkRequestQuery::default(): every term absent.
WalkRequestQueryDefault ==
    [id |-> None, accepted_by |-> None, accepted_by_neq |-> None,
     accepted_by_is_null |-> None, acceptances_includes_all |-> None,
     acceptances_includes_any |-> None, nearby |-> None, created_by |-> None]

\* WalkRequestUpdate::default(): every delta absent, both unset flags false.
WalkRequestUpdateDefault ==
    [accepted_by |-> None, accepted_at |-> None, canceled_at |-> None,
     started_at |-> None, finished_at |-> None,
     unset_accepted_by |-> FALSE, unset_accepted_at |-> FALSE,
     add_to_acceptances |-> None, remove_from_acceptances |-> None]

\* A filter term on one field: op is "any" when the filter has no such key.
NoTerm == [op |-> "any", arg |-> None]

\* The filter without its accepted_by_is_null term.
WalkRequestQueryDocument_NoIsNull(value) ==
    [_id |-> value.id,
     accepted_by |->
        IF IsSome(value.accepted_by_neq)
        THEN [op |-> "$ne", arg |-> value.accepted_by_neq]
        ELSE IF IsSome(value.accepted_by)
        THEN [op |-> "eq", arg |-> value.accepted_by]
        ELSE NoTerm,
     acceptances |->
        IF IsSome(value.acceptances_includes_any)
        THEN [op |-> "$elemMatch $in", arg |-> value.acceptances_includes_any]
        ELSE IF IsSome(value.acceptances_includes_all)
        THEN [op |-> "$all", arg |-> value.acceptances_includes_all]
        ELSE NoTerm,
     geoNear |->
        IF IsSome(value.nearby)
        THEN Some([near |-> <<value.nearby[1][1], value.nearby[1][2]>>,
                   maxDistance |-> value.nearby[1][3]])
        ELSE None,
     created_by |-> IF IsSome(value.nearby) THEN None ELSE value.created_by]

\* The filter without its _id term.
WalkRequestQueryDocument_NoId(value) ==
    [_id |-> None,
     accepted_by |->
        IF IsSome(value.accepted_by_is_null)
        THEN IF value.accepted_by_is_null[1]
             THEN [op |-> "$eq null", arg |-> None]
             ELSE [op |-> "$neq null", arg |-> None]
        ELSE IF IsSome(value.accepted_by_neq)
        THEN [op |-> "$ne", arg |-> value.accepted_by_neq]
        ELSE IF IsSome(value.accepted_by)
        THEN [op |-> "eq", arg |-> value.accepted_by]
        ELSE NoTerm,
     acceptances |->
        IF IsSome(value.acceptances_includes_any)
        THEN [op |-> "$elemMatch $in", arg |-> value.acceptances_includes_any]
        ELSE IF IsSome(value.acceptances_includes_all)
        THEN [op |-> "$all", arg |-> value.acceptances_includes_all]
        ELSE NoTerm,
     geoNear |->
        IF IsSome(value.nearby)
        THEN Some([near |-> <<value.nearby[1][1], value.nearby[1][2]>>,
                   maxDistance |-> value.nearby[1][3]])
        ELSE None,
     created_by |-> IF IsSome(value.nearby) THEN None ELSE value.created_by]

\* The filter without its acceptances_includes_all term.
WalkRequestQueryDocument_NoIncludesAll(value) ==
    [_id |-> value.id,
     accepted_by |->
        IF IsSome(value.accepted_by_is_null)
        THEN IF value.accepted_by_is_null[1]
             THEN [op |-> "$eq null", arg |-> None]
             ELSE [op |-> "$neq null", arg |-> None]
        ELSE IF IsSome(value.accepted_by_neq)
        THEN [op |-> "$ne", arg |-> value.accepted_by_neq]
        ELSE IF IsSome(value.accepted_by)
        THEN [op |-> "eq", arg |-> value.accepted_by]
        ELSE NoTerm,
     acceptances |->
        IF IsSome(value.acceptances_includes_any)
        THEN [op |-> "$elemMatch $in", arg |-> value.acceptances_includes_any]
        ELSE NoTerm,
     geoNear |->
        IF IsSome(value.nearby)
        THEN Some([near |-> <<value.nearby[1][1], value.nearby[1][2]>>,
                   maxDistance |-> value.nearby[1][3]])
        ELSE None,
     created_by |-> IF IsSome(value.nearby) THEN None ELSE value.created_by]

\* TryFrom<WalkRequestQuery> for Document. The three accepted_by terms are
\* inserted under the same key in the order eq, $ne, is-null: the last one
\* present replaces the earlier ones. With a nearby term the conversion
\* returns the $geoNear stage around the terms collected so far, before
\* created_by is looked at; the other fields of the record are then the
\* stage's "query".
WalkRequestQueryDocument(value) ==
    [_id |-> value.id,
     accepted_by |->
        IF IsSome(value.accepted_by_is_null)
        THEN IF value.accepted_by_is_null[1]
             THEN [op |-> "$eq null", arg |-> None]
             ELSE [op |-> "$neq null", arg |-> None]
        ELSE IF IsSome(value.accepted_by_neq)
        THEN [op |-> "$ne", arg |-> value.accepted_by_neq]
        ELSE IF IsSome(value.accepted_by)
        THEN [op |-> "eq", arg |-> value.accepted_by]
        ELSE NoTerm,
     acceptances |->
        IF IsSome(value.acceptances_includes_any)
        THEN [op |-> "$elemMatch $in", arg |-> value.acceptances_includes_any]
        ELSE IF IsSome(value.acceptances_includes_all)
        THEN [op |-> "$all", arg |-> value.acceptances_includes_all]
        ELSE NoTerm,
     geoNear |->
        IF IsSome(value.nearby)
        THEN Some([near |-> <<value.nearby[1][1], value.nearby[1][2]>>,
                   maxDistance |-> value.nearby[1][3]])
        ELSE None,
     created_by |-> IF IsSome(value.nearby) THEN None ELSE value.created_by]

\* A length test that lets a nearby term of more than three numbers pass.
QueryInvalid_TooShort(value) == IsSome(value.nearby) /\ Len(value.nearby[1]) < 3

\* The Err of TryFrom<WalkRequestQuery>: a nearby term that is not three
\* numbers.
QueryInvalid(value) == IsSome(value.nearby) /\ Len(value.nearby[1]) # 3

\* The elements of a sequence.
Range(s) == {s[k] : k \in 1..Len(s)}

\* "$neq" is no query operator: the server rejects a filter that carries it.
OperatorUnknown(filter) == filter.accepted_by.op = "$neq null"

\* Nor is "$geoNear" a top-level operator of a find or update filter.
FilterRejected(filter) == OperatorUnknown(filter) \/ IsSome(filter.geoNear)

\* A match in which an equality term also selects a document that lacks the
\* field.
Matches_EqSelectsMissing(id, d, filter) ==
    /\ IsSome(filter._id) => filter._id[1] = id
    /\ CASE filter.accepted_by.op = "any" -> TRUE
         [] filter.accepted_by.op = "eq" ->
              d.accepted_by = filter.accepted_by.arg \/ d.accepted_by = None
         [] filter.accepted_by.op = "$ne" -> d.accepted_by # filter.accepted_by.arg
         [] filter.accepted_by.op = "$eq null" -> d.accepted_by = None
         [] OTHER -> FALSE
    /\ CASE filter.acceptances.op = "any" -> TRUE
         [] filter.acceptances.op = "$all" ->
              /\ IsSome(d.acceptances)
              /\ filter.acceptances.arg[1] # {}
              /\ filter.acceptances.arg[1] \subseteq {d.acceptances[1][k] : k \in 1..Len(d.acceptances[1])}
         [] OTHER ->
              /\ IsSome(d.acceptances)
              /\ filter.acceptances.arg[1] \cap {d.acceptances[1][k] : k \in 1..Len(d.acceptances[1])} # {}
    /\ IsSome(filter.created_by) => d.created_by = filter.created_by[1]

\* MongoDB's match of one document (stored under id) against a filter.
\* A missing field equals null, differs from every string and holds no
\* array element.
Matches(id, d, filter) ==
    /\ IsSome(filter._id) => filter._id[1] = id
    /\ CASE filter.accepted_by.op = "any" -> TRUE
         [] filter.accepted_by.op = "eq" -> d.accepted_by = filter.accepted_by.arg
         [] filter.accepted_by.op = "$ne" -> d.accepted_by # filter.accepted_by.arg
         [] filter.accepted_by.op = "$eq null" -> d.accepted_by = None
         [] OTHER -> FALSE
    /\ CASE filter.acceptances.op = "any" -> TRUE
         [] filter.acceptances.op = "$all" ->
              /\ IsSome(d.acceptances)
              /\ filter.acceptances.arg[1] # {}
              /\ filter.acceptances.arg[1] \subseteq Range(d.acceptances[1])
         [] OTHER ->
              /\ IsSome(d.acceptances)
              /\ filter.acceptances.arg[1] \cap Range(d.acceptances[1]) # {}
    /\ IsSome(filter.created_by) => d.created_by = filter.created_by[1]

\* The update document without the $unset of accepted_at.
WalkRequestUpdateDocument_KeepAcceptedAt(update) ==
    [set |-> [accepted_by |-> update.accepted_by,
              accepted_at |-> update.accepted_at,
              dollar_addToSet |-> update.add_to_acceptances,
              started_at |-> update.started_at,
              finished_at |-> update.finished_at],
     unset |-> [accepted_by |-> update.unset_accepted_by,
                accepted_at |-> FALSE],
     pull |-> [acceptances |-> update.remove_from_acceptances]]

\* From<WalkRequestUpdate> for Document: the $set, $unset and $pull
\* operators. canceled_at is copied into none of them, and add_to_acceptances
\* is written as a key named "$addToSet" inside $set.
WalkRequestUpdateDocument(update) ==
    [set |-> [accepted_by |-> update.accepted_by,
              accepted_at |-> update.accepted_at,
              dollar_addToSet |-> update.add_to_acceptances,
              started_at |-> update.started_at,
              finished_at |-> update.finished_at],
     unset |-> [accepted_by |-> update.unset_accepted_by,
                accepted_at |-> update.unset_accepted_at],
     pull |-> [acceptances |-> update.remove_from_acceptances]]

\* $set of one field: the value when the operator names the field.
SetField(old, new) == IF IsSome(new) THEN new ELSE old

\* A $pull that removes nothing.
Pull_Nothing(acceptances, who) == acceptances

\* $pull: every occurrence of the value leaves the array; a missing array
\* stays missing.
Pull(acceptances, who) ==
    IF IsSome(who) /\ IsSome(acceptances)
    THEN Some(SelectSeq(acceptances[1], LAMBDA w : w # who[1]))
    ELSE acceptances

\* An application in which the $unset of accepted_by takes started_at with
\* it.
ApplyUpdate_UnsetClearsStart(d, u) ==
    [d EXCEPT
        !.accepted_by = IF u.unset.accepted_by THEN None
                        ELSE SetField(d.accepted_by, u.set.accepted_by),
        !.accepted_at = IF u.unset.accepted_at THEN None
                        ELSE SetField(d.accepted_at, u.set.accepted_at),
        !.started_at = IF u.unset.accepted_by THEN None
                       ELSE SetField(d.started_at, u.set.started_at),
        !.finished_at = SetField(d.finished_at, u.set.finished_at),
        !.acceptances = Pull(d.acceptances, u.pull.acceptances)]

\* MongoDB's application of an update document to one document.
ApplyUpdate(d, u) ==
    [d EXCEPT
        !.accepted_by = IF u.unset.accepted_by THEN None
                        ELSE SetField(d.accepted_by, u.set.accepted_by),
        !.accepted_at = IF u.unset.accepted_at THEN None
                        ELSE SetField(d.accepted_at, u.set.accepted_at),
        !.started_at = SetField(d.started_at, u.set.started_at),
        !.finished_at = SetField(d.finished_at, u.set.finished_at),
        !.acceptances = Pull(d.acceptances, u.pull.acceptances)]

\* A status $switch that tests started_at and finished_at before
\* accepted_at.
WalkRequestStatus_WalkFirst(d) ==
    IF IsSome(d.canceled_at) THEN "Canceled"
    ELSE IF IsSome(d.started_at) THEN "Started"
    ELSE IF IsSome(d.finished_at) THEN "Finished"
    ELSE IF IsSome(d.accepted_at) THEN "Accepted"
    ELSE "Waiting"

\* The "status" field of WalkRequest::projection: a $switch whose branches
\* test canceled_at, accepted_at, started_at, finished_at for non-null in
\* that order, the first that holds giving the status, with default
\* "Waiting".
WalkRequestStatus(d) ==
    IF IsSome(d.canceled_at) THEN "Canceled"
    ELSE IF IsSome(d.accepted_at) THEN "Accepted"
    ELSE IF IsSome(d.started_at) THEN "Started"
    ELSE IF IsSome(d.finished_at) THEN "Finished"
    ELSE "Waiting"

\* Dog::projection as the "dogs" entry of WalkRequest::projection: of every
\* embedded dog the fields named with 1, and an id computed from "$_id",
\* which in a projection is the _id of the document being projected, the
\* walk request.
EmbeddedDogProjection(root_id, dog) ==
    [id |-> root_id, name |-> dog.name, owner_id |-> dog.owner_id]

\* WalkRequest::projection: the WalkRequest a read returns for the document
\* stored under id. created_by is not projected; distance is there only
\* behind a $geoNear stage.
WalkRequestProjection(id, d) ==
    [id |-> id,
     dogs |-> [k \in DOMAIN d.dogs |-> EmbeddedDogProjection(id, d.dogs[k])],
     longitude |-> d.location.coordinates[1],
     latitude |-> d.location.coordinates[2],
     distance |-> IF "distance" \in DOMAIN d THEN Some(d.distance) ELSE None,
     canceled_at |-> d.canceled_at,
     accepted_by |-> d.accepted_by,
     accepted_at |-> d.accepted_at,
     started_at |-> d.started_at,
     finished_at |-> d.finished_at,
     status |-> WalkRequestStatus(d),
     acceptances |-> d.acceptances,
     created_at |-> d.created_at]

\* MongoDB::get_walk_request: find_one by _id under the projection.
get_walk_request(store, id) ==
    IF id \in DOMAIN store THEN Some(WalkRequestProjection(id, store[id]))
    ELSE None

\* The update documents the server may reject: a key of $set that starts
\* with "$" is refused by servers that validate field names for storage and
\* stored under that literal name by the others. Either way the field
\* "acceptances" is not touched, and no projection or filter of the program
\* reads a field named "$addToSet".
ServerAccepts(u) == IF IsSome(u.set.dollar_addToSet) THEN BOOLEAN ELSE {TRUE}

\* The documents of the collection that a filter selects.
Hits(store, filter) == {i \in DOMAIN store : Matches(i, store[i], filter)}

\* MongoDB::update_walk_request_by_query: find_one_and_update, which changes
\* the first document the filter selects and returns it, or reports that
\* there is none.
update_walk_request_by_query(store, query, update, server_ok) ==
    LET filter == WalkRequestQueryDocument(query)
        u == WalkRequestUpdateDocument(update)
        hit == Hits(store, filter)
    IN  IF FilterRejected(filter) \/ ~server_ok
        THEN [store |-> store, ok |-> FALSE, msg |-> "server error"]
        ELSE IF hit = {}
        THEN [store |-> store, ok |-> FALSE, msg |-> "walk request does not exist"]
        ELSE LET i == CHOOSE i \in hit : TRUE
             IN  [store |-> [store EXCEPT ![i] = ApplyUpdate(store[i], u)],
                  ok |-> TRUE, msg |-> ""]

\* MongoDB::update_walk_request: the same, selecting by _id alone.
update_walk_request(store, id, update, server_ok) ==
    update_walk_request_by_query(
        store, [WalkRequestQueryDefault EXCEPT !.id = Some(id)], update, server_ok)

\* MongoDB::update_walk_requests_by_query: update_many, which changes every
\* document the filter selects and returns modified_count, the number of
\* documents whose content the update changed.
update_walk_requests_by_query(store, query, update, server_ok) ==
    LET filter == WalkRequestQueryDocument(query)
        u == WalkRequestUpdateDocument(update)
        hit == Hits(store, filter)
        new == [i \in DOMAIN store |->
                    IF i \in hit THEN ApplyUpdate(store[i], u) ELSE store[i]]
    IN  IF FilterRejected(filter) \/ ~server_ok
        THEN [store |-> store, ok |-> FALSE, n |-> 0, msg |-> "server error"]
        ELSE [store |-> new, ok |-> TRUE,
              n |-> Cardinality({i \in hit : new[i] # store[i]}), msg |-> ""]

\* The arrangements of the ids of S in a row.
Arrangements(S) ==
    {f \in [1..Cardinality(S) -> S] :
        \A j, k \in 1..Cardinality(S) : j # k => f[j] # f[k]}

\* The orders in which the server may return the documents S of store under
\* a sort document: ascending for 1 and descending for -1 on the sort
\* field, documents with equal keys in any order, and any order at all
\* without a sort.
Sorted(store, S, sort_by) ==
    IF sort_by = None THEN Arrangements(S)
    ELSE {f \in Arrangements(S) :
             \A j, k \in 1..Cardinality(S) :
                j < k => IF sort_by[1].order = "Asc"
                         THEN store[f[j]][sort_by[1].field]
                                 <= store[f[k]][sort_by[1].field]
                         ELSE store[f[j]][sort_by[1].field]
                                 >= store[f[k]][sort_by[1].field]}

\* A cursor's skip followed by its limit (limit at least 1).
Page(rows, skip, limit) ==
    SubSeq(rows, skip + 1, IF skip + limit < Len(rows) THEN skip + limit ELSE Len(rows))

Abs(x) == IF x < 0 THEN -x ELSE x

\* The spherical distance between two [longitude, latitude] points, in grid
\* steps. The points in play lie on one meridian, where it is the
\* difference of the latitudes.
Distance(p, q) == Abs(p[1] - q[1]) + Abs(p[2] - q[2])

\* The $geoNear stage: the documents that satisfy the stage's query and lie
\* within maxDistance of near, nearest first (equal distances in any
\* order).
GeoNear(store, filter) ==
    LET g == filter.geoNear[1]
        d(i) == Distance(store[i].location.coordinates, g.near)
        within == {i \in Hits(store, filter) : d(i) <= g.maxDistance}
    IN  {f \in Arrangements(within) :
            \A j, k \in 1..Cardinality(within) : j < k => d(f[j]) <= d(f[k])}

\* MongoDB::query_walk_requests. With a nearby term: aggregate over the
\* pipeline $geoNear, $project, $skip(p.skip), $limit(p.limit), $sort.
\* Without: find under the filter, sorted, with the options limit(p.limit)
\* and skip(p.limit), every document projected. rows is the set of row
\* sequences the server may return.
query_walk_requests(store, query, sort_by, pagination) ==
    IF QueryInvalid(query)
    THEN [ok |-> FALSE, msg |-> "Invalid nearby query, expect [f64;3]",
          rows |-> {<<>>}]
    ELSE
    LET filter == WalkRequestQueryDocument(query)
        Rows(ids, docs) ==
            [k \in DOMAIN ids |-> WalkRequestProjection(ids[k], docs[ids[k]])]
    IN  IF OperatorUnknown(filter)
        THEN [ok |-> FALSE, msg |-> "server error", rows |-> {<<>>}]
        ELSE IF IsSome(query.nearby)
        THEN LET near == [i \in DOMAIN store |->
                            [distance |->
                                Distance(store[i].location.coordinates,
                                         filter.geoNear[1].near)] @@ store[i]]
                 pages == {IF IsSome(pagination)
                           THEN Page(f, pagination[1].skip, pagination[1].limit)
                           ELSE f : f \in GeoNear(store, filter)}
                 sorted == UNION {IF sort_by = None THEN {pg}
                                  ELSE Sorted(near, Range(pg), sort_by) :
                                     pg \in pages}
             IN  [ok |-> TRUE, msg |-> "",
                  rows |-> {Rows(ids, near) : ids \in sorted}]
        ELSE [ok |-> TRUE, msg |-> "",
              rows |-> {Rows(ids, store) :
                  ids \in {IF IsSome(pagination)
                           THEN Page(f, pagination[1].limit, pagination[1].limit)
                           ELSE f : f \in Sorted(store, Hits(store, filter), sort_by)}}]

-----------------------------------------------------------------------------
(* The service verbs. Each is one repository call; `last` records the call *)
(* and the Result it returns.                                              *)

\* The Pagination of a call that takes none.
NoPage == [limit |-> 0, skip |-> 0]

Returns(verb, id, user, ok, msg) ==
    last' = [verb |-> verb, id |-> id, user |-> user, ok |-> ok,
             msg |-> IF ok THEN "" ELSE msg, rows |-> <<>>, page |-> NoPage,
             query |-> WalkRequestQueryDefault, sort_by |-> None]

\* The Result that is Ok whenever the server ran the update, whatever the
\* count.
CountReturns_IgnoreCount(verb, id, user, r, msg) ==
    Returns(verb, id, user, r.ok, r.msg)

\* The Result of a verb built on update_walk_requests_by_query: Ok when
\* exactly one document was modified, the verb's own message otherwise.
CountReturns(verb, id, user, r, msg) ==
    Returns(verb, id, user, r.ok /\ r.n = 1, IF r.ok THEN msg ELSE r.msg)

\* Service::create_walk_request, MongoDB::create_walk_request: insert_one
\* under a new _id.
create_walk_request(id, request) ==
    \E now \in Times :
        /\ id \notin DOMAIN walk_requests
        /\ walk_requests' =
              [i \in DOMAIN walk_requests \cup {id} |->
                  IF i = id THEN WalkRequestCreateDocument(request, now)
                  ELSE walk_requests[i]]
        /\ Returns("create_walk_request", id, request.created_by, TRUE, "")
        /\ UNCHANGED <<calls, dogs, walking_locations>>

\* A DogUpdate: the new name, if any (name stands for every field of the
\* update).
DogUpdate(name) == [name |-> name]

\* The Result of a dog verb: the bool of an Ok(bool) is the one row.
DogReturns(verb, id, ok, value) ==
    last' = [verb |-> verb, id |-> id, user |-> "-", ok |-> ok,
             msg |-> IF ok THEN "" ELSE "server error",
             rows |-> IF ok THEN <<value>> ELSE <<>>, page |-> NoPage,
             query |-> WalkRequestQueryDefault, sort_by |-> None]

\* An update_dog that also rewrites the copies of the dog embedded in the
\* walk requests.
update_dog_Cascade(id, dog) ==
    LET hit == id \in DOMAIN dogs /\ IsSome(dog.name)
    IN  /\ dogs' = IF hit THEN [dogs EXCEPT ![id].name = dog.name[1]] ELSE dogs
        /\ walk_requests' =
              [i \in DOMAIN walk_requests |->
                 [walk_requests[i] EXCEPT
                    !.dogs = [k \in DOMAIN @ |->
                                 IF hit /\ @[k]._id = id
                                 THEN [@[k] EXCEPT !.name = dog.name[1]]
                                 ELSE @[k]]]]
        /\ DogReturns("update_dog", id, TRUE, hit)
        /\ UNCHANGED <<calls, walking_locations>>

\* Service::update_dog, MongoDB::update_dog: update_one on the collection
\* "dogs" by _id with {$set: update}; Ok(modified_count > 0). An update
\* with no field gives an empty $set, which the server refuses or applies
\* as a no-op, by its version.
update_dog(id, dog) ==
    \E server_ok \in IF IsSome(dog.name) THEN {TRUE} ELSE BOOLEAN :
        LET hit == server_ok /\ id \in DOMAIN dogs /\ IsSome(dog.name)
        IN  /\ dogs' = IF hit THEN [dogs EXCEPT ![id].name = dog.name[1]] ELSE dogs
            /\ DogReturns("update_dog", id, server_ok, hit)
            /\ UNCHANGED <<walk_requests, calls, walking_locations>>

\* MongoDB::delete_dog: delete_one on the collection "dogs" by _id;
\* Ok(deleted_count > 0).
delete_dog(id) ==
    /\ dogs' = [i \in DOMAIN dogs \ {id} |-> dogs[i]]
    /\ DogReturns("delete_dog", id, TRUE, id \in DOMAIN dogs)
    /\ UNCHANGED <<walk_requests, calls, walking_locations>>

\* What a listing returns: the call, its parameters and one of the row
\* sequences the server may answer with.
Lists(verb, user, query, sort_by, pagination) ==
    LET r == query_walk_requests(walk_requests, query, sort_by, pagination)
    IN  \E rows \in r.rows :
           last' = [verb |-> verb, id |-> "-", user |-> user, ok |-> r.ok,
                    msg |-> r.msg, rows |-> rows,
                    page |-> IF IsSome(pagination) THEN pagination[1] ELSE NoPage,
                    query |-> query, sort_by |-> sort_by]

\* Service::my_walk_requests: the requests created_by user_id, newest first,
\* one page of them.
my_walk_requests(user_id, pagination) ==
    /\ Lists("my_walk_requests", user_id,
             [WalkRequestQueryDefault EXCEPT !.created_by = Some(user_id)],
             Some([field |-> "created_at", order |-> "Desc"]),
             Some(pagination))
    /\ UNCHANGED <<walk_requests, calls, dogs, walking_locations>>

\* Service::nearby_walk_requests: the unclaimed requests within radius of
\* the point, one page of them.
nearby_walk_requests(latitute, longitude, radius, pagination) ==
    /\ Lists("nearby_walk_requests", "-",
             [WalkRequestQueryDefault EXCEPT
                 !.accepted_by_is_null = Some(TRUE),
                 !.nearby = Some(<<longitude, latitute, radius>>)],
             None,
             Some(pagination))
    /\ UNCHANGED <<walk_requests, calls, dogs, walking_locations>>

\* Repository::query_walk_requests called with a query, sort and pagination
\* of the caller's choice.
Repository_query_walk_requests(query, sort_by, pagination) ==
    /\ Lists("query_walk_requests", "-", query, sort_by, pagination)
    /\ UNCHANGED <<walk_requests, calls, dogs, walking_locations>>

\* accept without the accepted_by_is_null term of its query.
accept_step_AnyHolder(request_id, user_id) ==
    \E now \in Times :
        LET r == update_walk_request_by_query(
                    walk_requests,
                    [WalkRequestQueryDefault EXCEPT !.id = Some(request_id)],
                    [WalkRequestUpdateDefault EXCEPT
                        !.accepted_by = Some(user_id),
                        !.accepted_at = Some(now)],
                    TRUE)
        IN  /\ walk_requests' = r.store
            /\ Returns("accept", request_id, user_id, r.ok, r.msg)

\* Service::accept
accept_step(request_id, user_id) ==
    \E now \in Times :
        LET r == update_walk_request_by_query(
                    walk_requests,
                    [WalkRequestQueryDefault EXCEPT
                        !.id = Some(request_id),
                        !.accepted_by_is_null = Some(TRUE)],
                    [WalkRequestUpdateDefault EXCEPT
                        !.accepted_by = Some(user_id),
                        !.accepted_at = Some(now)],
                    TRUE)
        IN  /\ walk_requests' = r.store
            /\ Returns("accept", request_id, user_id, r.ok, r.msg)

accept(request_id, user_id) ==
    accept_step(request_id, user_id) /\ UNCHANGED <<calls, dogs, walking_locations>>

\* Service::accept as two steps of one walker's request: the handler is
\* entered, and later the awaited repository call runs and returns. Other
\* walkers' calls may run in between.
accept_invoke(request_id, user_id) ==
    /\ calls[user_id].status = "idle"
    /\ calls' = [calls EXCEPT ![user_id] = [id |-> request_id, status |-> "pending"]]
    /\ UNCHANGED <<walk_requests, last, dogs, walking_locations>>

accept_complete(user_id) ==
    /\ calls[user_id].status = "pending"
    /\ accept_step(calls[user_id].id, user_id)
    /\ calls' = [calls EXCEPT ![user_id].status = IF last'.ok THEN "ok" ELSE "err"]
    /\ UNCHANGED <<dogs, walking_locations>>

\* Service::remove_acceptance: the awaited repository call and the Result made of it.
remove_acceptance_step(request_id, user_id) ==
    LET r == update_walk_requests_by_query(
                walk_requests,
                [WalkRequestQueryDefault EXCEPT
                    !.id = Some(request_id),
                    !.accepted_by_neq = Some(user_id)],
                [WalkRequestUpdateDefault EXCEPT
                    !.remove_from_acceptances = Some(user_id)],
                TRUE)
    IN  /\ walk_requests' = r.store
        /\ CountReturns("remove_acceptance", request_id, user_id, r,
                        "request does not exist or the owner has approved the request")

\* Service::remove_acceptance
remove_acceptance(request_id, user_id) ==
    remove_acceptance_step(request_id, user_id) /\ UNCHANGED <<calls, dogs, walking_locations>>

\* Service::assign_accepter: the awaited repository call and the Result made of it.
assign_accepter_step(request_id, user_id) ==
    \E now \in Times :
        LET r == update_walk_requests_by_query(
                    walk_requests,
                    [WalkRequestQueryDefault EXCEPT
                        !.id = Some(request_id),
                        !.accepted_by_is_null = Some(TRUE),
                        !.acceptances_includes_all = Some({user_id})],
                    [WalkRequestUpdateDefault EXCEPT
                        !.accepted_by = Some(user_id),
                        !.accepted_at = Some(now)],
                    TRUE)
        IN  /\ walk_requests' = r.store
            /\ CountReturns("assign_accepter", request_id, user_id, r,
                            "request does not exist or the user has withdrawn the signup")

\* Service::assign_accepter
assign_accepter(request_id, user_id) ==
    assign_accepter_step(request_id, user_id) /\ UNCHANGED <<calls, dogs, walking_locations>>

\* Service::dismiss_accepter: the awaited repository call and the Result made of it.
dismiss_accepter_step(request_id, user_id) ==
    LET r == update_walk_requests_by_query(
                walk_requests,
                [WalkRequestQueryDefault EXCEPT
                    !.id = Some(request_id),
                    !.accepted_by = Some(user_id)],
                [WalkRequestUpdateDefault EXCEPT
                    !.unset_accepted_by = TRUE,
                    !.unset_accepted_at = TRUE],
                TRUE)
    IN  /\ walk_requests' = r.store
        /\ CountReturns("dismiss_accepter", request_id, user_id, r,
                        "request does not exist or the user has withdrawn the signup")

\* Service::dismiss_accepter
dismiss_accepter(request_id, user_id) ==
    dismiss_accepter_step(request_id, user_id) /\ UNCHANGED <<calls, dogs, walking_locations>>

\* Service::cancel_unaccepted_request
cancel_unaccepted_request(request_id) ==
    \E now \in Times :
        LET r == update_walk_requests_by_query(
                    walk_requests,
                    [WalkRequestQueryDefault EXCEPT
                        !.id = Some(request_id),
                        !.accepted_by_is_null = Some(TRUE)],
                    [WalkRequestUpdateDefault EXCEPT
                        !.canceled_at = Some(now)],
                    TRUE)
        IN  /\ walk_requests' = r.store
            /\ CountReturns("cancel_unaccepted_request", request_id, "-", r,
                            "request does not exist")
            /\ UNCHANGED <<calls, dogs, walking_locations>>

\* Service::cancel_accepted_request
cancel_accepted_request(request_id, user_id) ==
    \E now \in Times :
        LET r == update_walk_requests_by_query(
                    walk_requests,
                    [WalkRequestQueryDefault EXCEPT
                        !.id = Some(request_id),
                        !.accepted_by = Some(user_id)],
                    [WalkRequestUpdateDefault EXCEPT
                        !.canceled_at = Some(now)],
                    TRUE)
        IN  /\ walk_requests' = r.store
            /\ CountReturns("cancel_accepted_request", request_id, user_id, r,
                            "request does not exist")
            /\ UNCHANGED <<calls, dogs, walking_locations>>

\* Service::resign_acceptance: the awaited repository call and the Result made of it.
resign_acceptance_step(request_id, user_id) ==
    LET r == update_walk_requests_by_query(
                walk_requests,
                [WalkRequestQueryDefault EXCEPT
                    !.id = Some(request_id),
                    !.accepted_by = Some(user_id)],
                [WalkRequestUpdateDefault EXCEPT
                    !.unset_accepted_by = TRUE,
                    !.unset_accepted_at = TRUE,
                    !.remove_from_acceptances = Some(user_id)],
                TRUE)
    IN  /\ walk_requests' = r.store
        /\ CountReturns("resign_acceptance", request_id, user_id, r,
                        "request does not exist or was canceled by the owner")

\* Service::resign_acceptance
resign_acceptance(request_id, user_id) ==
    resign_acceptance_step(request_id, user_id) /\ UNCHANGED <<calls, dogs, walking_locations>>

\* start_walk without the accepted_by term of its query.
start_walk_AnyWalker(request_id, user_id) ==
    \E now \in Times :
        LET r == update_walk_request_by_query(
                    walk_requests,
                    [WalkRequestQueryDefault EXCEPT !.id = Some(request_id)],
                    [WalkRequestUpdateDefault EXCEPT !.started_at = Some(now)],
                    TRUE)
        IN  /\ walk_requests' = r.store
            /\ Returns("start_walk", request_id, user_id, r.ok, r.msg)
            /\ UNCHANGED <<calls, dogs, walking_locations>>

\* Service::start_walk
start_walk(request_id, user_id) ==
    \E now \in Times :
        LET r == update_walk_request_by_query(
                    walk_requests,
                    [WalkRequestQueryDefault EXCEPT
                        !.id = Some(request_id),
                        !.accepted_by = Some(user_id)],
                    [WalkRequestUpdateDefault EXCEPT
                        !.started_at = Some(now)],
                    TRUE)
        IN  /\ walk_requests' = r.store
            /\ Returns("start_walk", request_id, user_id, r.ok, r.msg)
            /\ UNCHANGED <<calls, dogs, walking_locations>>

\* Service::finish_walk
finish_walk(request_id, user_id) ==
    \E now \in Times :
        LET r == update_walk_request_by_query(
                    walk_requests,
                    [WalkRequestQueryDefault EXCEPT
                        !.id = Some(request_id),
                        !.accepted_by = Some(user_id)],
                    [WalkRequestUpdateDefault EXCEPT
                        !.finished_at = Some(now)],
                    TRUE)
        IN  /\ walk_requests' = r.store
            /\ Returns("finish_walk", request_id, user_id, r.ok, r.msg)
            /\ UNCHANGED <<calls, dogs, walking_locations>>

\* From<WalkingLocationCreate> for Document: the reference to the walk
\* request as given, the point, and created_at from the clock.
WalkingLocationCreateDocument(value, now) ==
    [walk_request_id |-> value.walk_request_id, longitude |-> value.longitude,
     latitude |-> value.latitude, created_at |-> now]

\* A record_walking_location that also stamps the walk as started.
record_walking_location_Starts(walk_request_id, longitude, latitute) ==
    \E now \in Times :
        /\ Len(walking_locations) < MaxLocations
        /\ walking_locations' =
              Append(walking_locations,
                     WalkingLocationCreateDocument(
                        [walk_request_id |-> walk_request_id,
                         longitude |-> longitude, latitude |-> latitute], now))
        /\ walk_requests' =
              [i \in DOMAIN walk_requests |->
                  IF i = walk_request_id
                  THEN [walk_requests[i] EXCEPT !.started_at = Some(1)]
                  ELSE walk_requests[i]]
        /\ Returns("record_walking_location", walk_request_id, "-", TRUE, "")
        /\ UNCHANGED <<calls, dogs>>

\* Service::record_walking_location, MongoDB::create_walking_location:
\* insert_one into "walking_locations"; the walk request is not read.
record_walking_location(walk_request_id, longitude, latitute) ==
    \E now \in Times :
        /\ Len(walking_locations) < MaxLocations
        /\ walking_locations' =
              Append(walking_locations,
                     WalkingLocationCreateDocument(
                        [walk_request_id |-> walk_request_id,
                         longitude |-> longitude, latitude |-> latitute], now))
        /\ Returns("record_walking_location", walk_request_id, "-", TRUE, "")
        /\ UNCHANGED <<walk_requests, calls, dogs>>

\* Joining the bid pool: Repository::update_walk_request with a
\* WalkRequestUpdate whose only delta is add_to_acceptances.
join_acceptances(request_id, user_id) ==
    LET update == [WalkRequestUpdateDefault EXCEPT
                      !.add_to_acceptances = Some(user_id)]
    IN  \E server_ok \in ServerAccepts(WalkRequestUpdateDocument(update)) :
            LET r == update_walk_request(walk_requests, request_id, update, server_ok)
            IN  /\ walk_requests' = r.store
                /\ Returns("join_acceptances", request_id, user_id, r.ok, r.msg)
                /\ UNCHANGED <<calls, dogs, walking_locations>>

-----------------------------------------------------------------------------
(* The collection as the service finds it, and the specification *)

\* The request the lifecycle specifications post: the owner's, with no dog
\* listed, at the origin.
OwnerRequest == WalkRequestCreate(<<>>, 0, 0, Owner)

\* The bid pools of the documents that are in the collection when the
\* service connects: the first n walkers, for n up to MaxPool.
SeedPools == {SubSeq(WalkerOrder, 1, n) : n \in 0..MaxPool}

\* Documents already in the collection when the service connects
\* (main.rs opens an existing database): unclaimed requests as
\* create_walk_request left them at time 1, with or without a bid pool,
\* canceled or not.
SeedDocuments ==
    {[WalkRequestCreateDocument(OwnerRequest, 1)
         EXCEPT !.acceptances = p, !.canceled_at = c] :
        p \in {None} \cup {Some(pool) : pool \in SeedPools},
        c \in {None, Some(1)}}

\* The "dogs" collection with no document in it.
NoDogs == [i \in {} |-> None]

NoCall ==
    [verb |-> "none", id |-> "-", user |-> "-", ok |-> TRUE, msg |-> "",
     rows |-> <<>>, page |-> NoPage, query |-> WalkRequestQueryDefault,
     sort_by |-> None]

Idle == [id |-> "-", status |-> "idle"]

Init ==
    /\ \E S \in SUBSET Ids : walk_requests \in [S -> SeedDocuments]
    /\ last = NoCall
    /\ calls = [w \in Walkers |-> Idle]
    /\ dogs = NoDogs
    /\ walking_locations = <<>>

Next ==
    \/ \E i \in Ids : create_walk_request(i, OwnerRequest)
    \/ \E i \in Ids, w \in Walkers : accept(i, w)
    \/ \E i \in Ids, w \in Walkers : join_acceptances(i, w)
    \/ \E i \in Ids, w \in Walkers : remove_acceptance(i, w)
    \/ \E i \in Ids, w \in Walkers : assign_accepter(i, w)
    \/ \E i \in Ids, w \in Walkers : dismiss_accepter(i, w)
    \/ \E i \in Ids : cancel_unaccepted_request(i)
    \/ \E i \in Ids, w \in Walkers : cancel_accepted_request(i, w)
    \/ \E i \in Ids, w \in Walkers : resign_acceptance(i, w)
    \/ \E i \in Ids, w \in Walkers : start_walk(i, w)
    \/ \E i \in Ids, w \in Walkers : finish_walk(i, w)

Spec == Init /\ [][Next]_vars

\* Two requests side by side: the verbs of Next on the ids of IdsPair, called
\* by the walkers of WalkersPair at one reading of the clock, on a
\* collection that starts empty or with requests as create_walk_request left
\* them.
IdsPair == {"A", "B"}

WalkersPair == {"X", "Y"}

\* The verbs of Next on the one request as the two walkers of WalkersPair
\* call them, each call reading the wall clock anew, on the collection as
\* Init finds it.
NextTwo ==
    \/ \E i \in Ids : create_walk_request(i, OwnerRequest)
    \/ \E i \in Ids, w \in WalkersPair : accept(i, w)
    \/ \E i \in Ids, w \in WalkersPair : join_acceptances(i, w)
    \/ \E i \in Ids, w \in WalkersPair : remove_acceptance(i, w)
    \/ \E i \in Ids, w \in WalkersPair : assign_accepter(i, w)
    \/ \E i \in Ids, w \in WalkersPair : dismiss_accepter(i, w)
    \/ \E i \in Ids : cancel_unaccepted_request(i)
    \/ \E i \in Ids, w \in WalkersPair : cancel_accepted_request(i, w)
    \/ \E i \in Ids, w \in WalkersPair : resign_acceptance(i, w)
    \/ \E i \in Ids, w \in WalkersPair : start_walk(i, w)
    \/ \E i \in Ids, w \in WalkersPair : finish_walk(i, w)

SpecTwo == Init /\ [][NextTwo]_vars

\* Every timestamp written so far is the clock reading 1.
Instant ==
    \A i \in DOMAIN walk_requests' :
       /\ walk_requests'[i].created_at = 1
       /\ walk_requests'[i].accepted_at \in {None, Some(1)}
       /\ walk_requests'[i].started_at \in {None, Some(1)}
       /\ walk_requests'[i].finished_at \in {None, Some(1)}

InitPair ==
    /\ \E S \in SUBSET IdsPair :
          walk_requests = [i \in S |-> WalkRequestCreateDocument(OwnerRequest, 1)]
    /\ last = NoCall
    /\ calls = [w \in Walkers |-> Idle]
    /\ dogs = NoDogs
    /\ walking_locations = <<>>

NextPair ==
    \/ \E i \in IdsPair : create_walk_request(i, OwnerRequest) /\ Instant
    \/ \E i \in IdsPair, w \in WalkersPair : accept(i, w) /\ Instant
    \/ \E i \in IdsPair, w \in WalkersPair : join_acceptances(i, w)
    \/ \E i \in IdsPair, w \in WalkersPair : remove_acceptance(i, w)
    \/ \E i \in IdsPair, w \in WalkersPair : assign_accepter(i, w) /\ Instant
    \/ \E i \in IdsPair, w \in WalkersPair : dismiss_accepter(i, w)
    \/ \E i \in IdsPair : cancel_unaccepted_request(i)
    \/ \E i \in IdsPair, w \in WalkersPair : cancel_accepted_request(i, w)
    \/ \E i \in IdsPair, w \in WalkersPair : resign_acceptance(i, w)
    \/ \E i \in IdsPair, w \in WalkersPair : start_walk(i, w) /\ Instant
    \/ \E i \in IdsPair, w \in WalkersPair : finish_walk(i, w) /\ Instant

SpecPair == InitPair /\ [][NextPair]_vars

\* Listings: owners post requests and list their own, on a collection that
\* starts with any requests of theirs.
IdsQuery == {"A", "B", "C"}

Paginations == [limit : 1..MaxLimit, skip : 0..MaxSkip]

InitQuery ==
    /\ \E S \in SUBSET IdsQuery :
          walk_requests \in
             [S -> {WalkRequestCreateDocument(WalkRequestCreate(<<>>, 0, 0, o), t) :
                       o \in Owners, t \in Times}]
    /\ last = NoCall
    /\ calls = [w \in Walkers |-> Idle]
    /\ dogs = NoDogs
    /\ walking_locations = <<>>

NextQuery ==
    \/ \E i \in IdsQuery, o \in Owners :
          create_walk_request(i, WalkRequestCreate(<<>>, 0, 0, o))
    \/ \E o \in Owners, p \in Paginations : my_walk_requests(o, p)

SpecQuery == InitQuery /\ [][NextQuery]_vars

\* Proximity listings: requests along the meridian 0, unclaimed or claimed
\* by X, and walkers who list the unclaimed ones near a point.
NearbyDocuments ==
    LET fresh(lat) ==
            WalkRequestCreateDocument(WalkRequestCreate(<<>>, 0, lat, Owner), 1)
    IN  {fresh(lat) : lat \in Places}
        \cup {[fresh(lat) EXCEPT !.accepted_by = Some("X"),
                                  !.accepted_at = Some(1)] : lat \in Places}

InitNearby ==
    /\ \E S \in SUBSET IdsPair : walk_requests \in [S -> NearbyDocuments]
    /\ last = NoCall
    /\ calls = [w \in Walkers |-> Idle]
    /\ dogs = NoDogs
    /\ walking_locations = <<>>

\* The pages walkers ask for: from the start of the list or past its first
\* entry.
NearbyPaginations == {p \in Paginations : p.skip <= 1}

NextNearby ==
    \E lat \in Places, radius \in Places, p \in NearbyPaginations :
       nearby_walk_requests(lat, 0, radius, p)

SpecNearby == InitNearby /\ [][NextNearby]_vars

\* Offers: requests at the origin, unclaimed, of which some were canceled by
\* their owner, and walkers who list the unclaimed requests near them.
OfferDocuments ==
    {[WalkRequestCreateDocument(OwnerRequest, t) EXCEPT !.canceled_at = c] :
        t \in Times, c \in {None, Some(MaxClock)}}

InitOffer ==
    /\ \E S \in SUBSET IdsPair : walk_requests \in [S -> OfferDocuments]
    /\ last = NoCall
    /\ calls = [w \in Walkers |-> Idle]
    /\ dogs = NoDogs
    /\ walking_locations = <<>>

NextOffer ==
    \/ \E i \in IdsPair : cancel_unaccepted_request(i)
    \/ \E lat \in {0, 1}, radius \in {0, 1}, p \in NearbyPaginations :
          nearby_walk_requests(lat, 0, radius, p)

SpecOffer == InitOffer /\ [][NextOffer]_vars

\* The repository's query called directly: requests of either owner along
\* the meridian 0, and queries with or without a proximity term (well
\* formed or not), an owner term, a sort and a page.
RepositoryDocuments ==
    {WalkRequestCreateDocument(WalkRequestCreate(<<>>, 0, lat, o), t) :
        lat \in {0, 1, 2}, o \in Owners, t \in Times}

NearbyTerms == {None, Some(<<0, 0>>), Some(<<0, 0, 1>>), Some(<<0, 0, 1, 0>>)}

RepositoryQueries ==
    {[WalkRequestQueryDefault EXCEPT !.nearby = n, !.created_by = c] :
        n \in NearbyTerms, c \in {None, Some(Owner)}}

RepositorySorts == {None, Some([field |-> "created_at", order |-> "Desc"])}

RepositoryPaginations ==
    {None} \cup {Some(p) : p \in {q \in Paginations : q.limit = 1 /\ q.skip <= 1}}

InitRepository ==
    /\ \E S \in SUBSET IdsPair : walk_requests \in [S -> RepositoryDocuments]
    /\ last = NoCall
    /\ calls = [w \in Walkers |-> Idle]
    /\ dogs = NoDogs
    /\ walking_locations = <<>>

NextRepository ==
    \E q \in RepositoryQueries, o \in RepositorySorts, p \in RepositoryPaginations :
       Repository_query_walk_requests(q, o, p)

SpecRepository == InitRepository /\ [][NextRepository]_vars

\* Dogs and the requests that list them: the owner's dog records are
\* renamed and deleted while requests that were posted with them exist or
\* are posted.
DogIds == {"d", "e"}

DogNames == {"Rex", "Max"}

\* The Dog values a caller can hold: the records of the collection as
\* query_dogs returns them.
DogValues == {Dog(i, dogs[i].name, dogs[i].owner_id) : i \in DOMAIN dogs}

InitDogs ==
    /\ walk_requests = NoDogs
    /\ last = NoCall
    /\ calls = [w \in Walkers |-> Idle]
    /\ \E S \in SUBSET DogIds :
          dogs \in [S -> {[name |-> n, owner_id |-> Owner] : n \in DogNames}]
    /\ walking_locations = <<>>

NextDogs ==
    \/ \E i \in IdsPair, v \in DogValues :
          create_walk_request(i, WalkRequestCreate(<<v>>, 0, 0, Owner)) /\ Instant
    \/ \E i \in DogIds, n \in {None} \cup {Some(m) : m \in DogNames} :
          update_dog(i, DogUpdate(n))
    \/ \E i \in DogIds : delete_dog(i)

SpecDogs == InitDogs /\ [][NextDogs]_vars

\* Walks: the lifecycle verbs on request "A" called by the walkers of
\* WalkersPair at one reading of the clock, while location samples are
\* recorded for it.
\* Every location sample so far was stamped at the clock reading 1.
InstantSample ==
    \A k \in DOMAIN walking_locations' : walking_locations'[k].created_at = 1

InitWalk ==
    /\ \E S \in SUBSET Ids : walk_requests \in [S -> SeedDocuments]
    /\ last = NoCall
    /\ calls = [w \in Walkers |-> Idle]
    /\ dogs = NoDogs
    /\ walking_locations = <<>>

NextWalk ==
    \/ \E i \in Ids : create_walk_request(i, OwnerRequest) /\ Instant
    \/ \E i \in Ids, w \in WalkersPair : accept(i, w) /\ Instant
    \/ \E i \in Ids, w \in WalkersPair : remove_acceptance(i, w)
    \/ \E i \in Ids, w \in WalkersPair : assign_accepter(i, w) /\ Instant
    \/ \E i \in Ids, w \in WalkersPair : dismiss_accepter(i, w)
    \/ \E i \in Ids : cancel_unaccepted_request(i)
    \/ \E i \in Ids, w \in WalkersPair : cancel_accepted_request(i, w)
    \/ \E i \in Ids, w \in WalkersPair : resign_acceptance(i, w)
    \/ \E i \in Ids, w \in WalkersPair : start_walk(i, w) /\ Instant
    \/ \E i \in Ids, w \in WalkersPair : finish_walk(i, w) /\ Instant
    \/ \E i \in Ids, lat \in {0, 1} :
          record_walking_location(i, 0, lat) /\ InstantSample

SpecWalk == InitWalk /\ [][NextWalk]_vars

\* Concurrent accepts: every walker may have one accept in flight, and the
\* server runs the pending calls in any order.
NextRace ==
    \/ \E i \in Ids, w \in Walkers : accept_invoke(i, w)
    \/ \E w \in Walkers : accept_complete(w)

SpecRace == Init /\ [][NextRace]_vars

\* Calls that overlap: the owner and each walker of WalkersPair may each
\* make one call on request "A"; a call is entered (its handler starts, and
\* the slot remembers the document as it was then) and later its awaited
\* repository call runs and returns. Calls in flight run in any order.
Callers == {"owner"} \cup WalkersPair

\* The verbs a walker calls for themself, and those the owner calls naming
\* a walker.
WalkerVerbs == {"accept", "remove_acceptance", "resign_acceptance"}

OwnerVerbs == {"assign_accepter", "dismiss_accepter"}

NoSlot ==
    [verb |-> "-", id |-> "-", user |-> "-", status |-> "idle", before |-> None]

\* The request as the callers may find it: unclaimed or held by a walker
\* since time 1, with any of the bid pools.
ContendDocuments ==
    {[WalkRequestCreateDocument(OwnerRequest, 1)
         EXCEPT !.acceptances = p, !.accepted_by = w,
                !.accepted_at = IF IsSome(w) THEN Some(1) ELSE None] :
        p \in {None} \cup {Some(pool) : pool \in SeedPools},
        w \in {None} \cup {Some(x) : x \in WalkersPair}}

InitContend ==
    /\ walk_requests \in [{"A"} -> ContendDocuments]
    /\ last = NoCall
    /\ calls = [c \in Callers |-> NoSlot]
    /\ dogs = NoDogs
    /\ walking_locations = <<>>

\* The handler of caller's call is entered.
invoke(caller, verb, request_id, user_id) ==
    /\ calls[caller].status = "idle"
    /\ calls' = [calls EXCEPT ![caller] =
                    [verb |-> verb, id |-> request_id, user |-> user_id,
                     status |-> "pending",
                     before |-> get_walk_request(walk_requests, request_id)]]
    /\ UNCHANGED <<walk_requests, last, dogs, walking_locations>>

\* A call that is tried again when its update matched nothing.
complete_Retries(caller) ==
    LET c == calls[caller]
    IN  /\ c.status = "pending"
        /\ \/ c.verb = "accept" /\ accept_step(c.id, c.user)
           \/ c.verb = "remove_acceptance" /\ remove_acceptance_step(c.id, c.user)
           \/ c.verb = "resign_acceptance" /\ resign_acceptance_step(c.id, c.user)
           \/ c.verb = "assign_accepter" /\ assign_accepter_step(c.id, c.user)
           \/ c.verb = "dismiss_accepter" /\ dismiss_accepter_step(c.id, c.user)
        /\ Instant
        /\ calls' = [calls EXCEPT ![caller].status =
                                     IF last'.ok THEN "ok" ELSE "pending"]
        /\ UNCHANGED <<dogs, walking_locations>>

\* The repository call of caller's pending call runs and the call returns.
complete(caller) ==
    LET c == calls[caller]
    IN  /\ c.status = "pending"
        /\ \/ c.verb = "accept" /\ accept_step(c.id, c.user)
           \/ c.verb = "remove_acceptance" /\ remove_acceptance_step(c.id, c.user)
           \/ c.verb = "resign_acceptance" /\ resign_acceptance_step(c.id, c.user)
           \/ c.verb = "assign_accepter" /\ assign_accepter_step(c.id, c.user)
           \/ c.verb = "dismiss_accepter" /\ dismiss_accepter_step(c.id, c.user)
        /\ Instant
        /\ calls' = [calls EXCEPT ![caller].status = IF last'.ok THEN "ok" ELSE "err"]
        /\ UNCHANGED <<dogs, walking_locations>>

NextContend ==
    \/ \E w \in WalkersPair, v \in WalkerVerbs : invoke(w, v, "A", w)
    \/ \E w \in WalkersPair, v \in OwnerVerbs : invoke("owner", v, "A", w)
    \/ \E c \in Callers : complete(c)

SpecContend == InitContend /\ [][NextContend]_vars

\* The same under fair scheduling, on a request that both walkers have bid
\* for and that is unclaimed or held by one of them: the runtime polls every
\* pending future, so a call whose repository call can run does run.
InitFair ==
    /\ InitContend
    /\ walk_requests["A"].acceptances = Some(<<"X", "Y">>)
    /\ walk_requests["A"].accepted_by \in {None, Some("X")}

FairContend ==
    InitFair /\ [][NextContend]_vars /\ \A c \in Callers : WF_vars(complete(c))

-----------------------------------------------------------------------------
(* Properties *)

\* The walkers whose accept of request i is in the given status.
AcceptCalls(i, status) ==
    {w \in Walkers : calls[w].id = i /\ calls[w].status = status}

\* C1 (single claim): among concurrent accepts of one unclaimed request, at
\* most one ever succeeds; once two or more walkers have called and every
\* call has returned, exactly one has succeeded, accepted_by is that walker,
\* and all the others have failed.
C1_SingleClaim ==
    \A i \in DOMAIN walk_requests :
        LET won == AcceptCalls(i, "ok")
            lost == AcceptCalls(i, "err")
        IN  /\ Cardinality(won) <= 1
            /\ \A w \in won : walk_requests[i].accepted_by = Some(w)
            /\ lost # {} => won # {}
            /\ (AcceptCalls(i, "pending") = {} /\ Cardinality(won \cup lost) >= 2)
                  => Cardinality(won) = 1

\* Three walkers have raced for a request: one won, two lost.
C1_Witness ==
    \E i \in DOMAIN walk_requests :
        /\ AcceptCalls(i, "pending") = {}
        /\ Cardinality(AcceptCalls(i, "ok")) = 1
        /\ Cardinality(AcceptCalls(i, "err")) = 2

\* The document of request i before and after a step, when it is present in both.
Kept(i) == i \in DOMAIN walk_requests /\ i \in DOMAIN walk_requests'

\* C2 (claim exclusivity): no step changes accepted_by from one walker to a
\* different walker, and accept and assign_accepter return Ok only on a
\* request whose accepted_by was unset.
C2_ClaimExclusive ==
    [][\A i \in Ids :
          /\ (Kept(i) /\ IsSome(walk_requests[i].accepted_by)
                      /\ IsSome(walk_requests'[i].accepted_by))
                => walk_requests'[i].accepted_by = walk_requests[i].accepted_by
          /\ (last'.id = i /\ last'.ok /\ last'.verb \in {"accept", "assign_accepter"})
                => /\ i \in DOMAIN walk_requests
                   /\ walk_requests[i].accepted_by = None
                   /\ walk_requests'[i].accepted_by = Some(last'.user)]_vars

\* A walker's accept has failed on a request that another walker holds.
C2_Witness ==
    /\ last.verb = "accept"
    /\ ~last.ok
    /\ last.id \in DOMAIN walk_requests
    /\ IsSome(walk_requests[last.id].accepted_by)
    /\ walk_requests[last.id].accepted_by # Some(last.user)

\* C3: in every state, accepted_at is set exactly when accepted_by is set.
C3_AcceptedAtIffAcceptedBy ==
    \A i \in DOMAIN walk_requests :
        IsSome(walk_requests[i].accepted_at) <=> IsSome(walk_requests[i].accepted_by)

\* A claim has been given up by resignation after a walk was started under
\* it: both fields are unset again.
C3_Witness ==
    /\ last.verb = "resign_acceptance"
    /\ last.ok
    /\ walk_requests[last.id].accepted_by = None
    /\ walk_requests[last.id].accepted_at = None
    /\ IsSome(walk_requests[last.id].started_at)

\* The verbs that act on the lifecycle of an existing request.
LifecycleVerbs ==
    {"accept", "remove_acceptance", "assign_accepter", "dismiss_accepter",
     "cancel_unaccepted_request", "cancel_accepted_request",
     "resign_acceptance", "start_walk", "finish_walk"}

C5_ResignDismissSymmetry ==
    [][\A i \in Ids :
          (/\ Kept(i)
           /\ last'.id = i
           /\ last'.verb \in {"resign_acceptance", "dismiss_accepter"})
             => /\ walk_requests[i].accepted_by = Some(last'.user)
                      => /\ last'.ok
                         /\ walk_requests'[i].accepted_by = None
                         /\ walk_requests'[i].accepted_at = None
                /\ (/\ last.verb \in {"resign_acceptance", "dismiss_accepter"}
                    /\ last.ok
                    /\ last.id = i
                    /\ last.user = last'.user)
                      => /\ ~last'.ok
                         /\ walk_requests'[i] = walk_requests[i]]_vars

\* The owner has dismissed the walker who held the claim.
C5_Witness ==
    /\ last.verb = "dismiss_accepter"
    /\ last.ok
    /\ walk_requests[last.id].accepted_by = None
    /\ walk_requests[last.id].accepted_at = None

\* C6 (claim, conflict, dismiss, re-claim): accept on an unclaimed request
\* succeeds and makes the caller accepted_by; accept by another walker on a
\* claimed request fails and leaves accepted_by as it is; dismiss_accepter of
\* the holder succeeds and unsets accepted_by, after which accept succeeds
\* again.
C6_ClaimConflictDismissReclaim ==
    [][\A i \in Ids :
          (Kept(i) /\ last'.id = i)
             => /\ last'.verb = "accept"
                      => IF walk_requests[i].accepted_by = None
                         THEN /\ last'.ok
                              /\ walk_requests'[i].accepted_by = Some(last'.user)
                         ELSE /\ ~last'.ok
                              /\ walk_requests'[i].accepted_by
                                    = walk_requests[i].accepted_by
                /\ (/\ last'.verb = "dismiss_accepter"
                    /\ walk_requests[i].accepted_by = Some(last'.user))
                      => /\ last'.ok
                         /\ walk_requests'[i].accepted_by = None]_vars

\* A walker has claimed a request that an earlier holder had started to walk
\* and then lost: the claim was taken, given up and taken again.
C6_Witness ==
    /\ last.verb = "accept"
    /\ last.ok
    /\ walk_requests[last.id].accepted_by = Some(last.user)
    /\ IsSome(walk_requests[last.id].started_at)

\* The walkers in the bid pool of a document.
Pool(d) == IF IsSome(d.acceptances) THEN Range(d.acceptances[1]) ELSE {}

\* C7: assign_accepter(request, W) returns Ok exactly when the request
\* exists, its accepted_by is unset and W is in acceptances; it then sets
\* accepted_by = W and accepted_at, and otherwise leaves the collection as
\* it was.
C7_AssignFromPool ==
    [][\A i \in Ids :
          (last'.id = i /\ last'.verb = "assign_accepter")
             => /\ last'.ok <=> /\ i \in DOMAIN walk_requests
                                /\ walk_requests[i].accepted_by = None
                                /\ last'.user \in Pool(walk_requests[i])
                /\ last'.ok => /\ walk_requests'[i].accepted_by = Some(last'.user)
                               /\ IsSome(walk_requests'[i].accepted_at)
                /\ ~last'.ok => walk_requests' = walk_requests]_vars

\* The owner has assigned a walker from a bid pool that holds another
\* walker too.
C7_Witness ==
    /\ last.verb = "assign_accepter"
    /\ last.ok
    /\ walk_requests[last.id].accepted_by = Some(last.user)
    /\ Cardinality(Pool(walk_requests[last.id])) >= 2

\* The number of occurrences of w in the bid pool of a document.
Occurrences(d, w) ==
    IF IsSome(d.acceptances)
    THEN Cardinality({k \in 1..Len(d.acceptances[1]) : d.acceptances[1][k] = w})
    ELSE 0

\* C8 (idempotent join): after a walker has joined the bid pool of an
\* existing request, once or repeatedly, acceptances holds that walker
\* exactly once.
C8_IdempotentJoin ==
    (last.verb = "join_acceptances" /\ last.id \in DOMAIN walk_requests)
        => Occurrences(walk_requests[last.id], last.user) = 1

\* C9: start_walk(request, W) returns Ok exactly when the request exists and
\* accepted_by = W; it then sets started_at and nothing else, and otherwise
\* leaves the collection, started_at included, as it was.
C9_StartByHolderOnly ==
    [][\A i \in Ids :
          (last'.id = i /\ last'.verb = "start_walk")
             => /\ last'.ok <=> /\ i \in DOMAIN walk_requests
                                /\ walk_requests[i].accepted_by = Some(last'.user)
                /\ last'.ok =>
                      /\ IsSome(walk_requests'[i].started_at)
                      /\ [walk_requests'[i] EXCEPT !.started_at = None]
                            = [walk_requests[i] EXCEPT !.started_at = None]
                /\ ~last'.ok => walk_requests' = walk_requests]_vars

\* A walker who is not the holder has tried to start the walk of a claimed
\* request, and started_at is still unset.
C9_Witness ==
    /\ last.verb = "start_walk"
    /\ ~last.ok
    /\ last.id \in DOMAIN walk_requests
    /\ IsSome(walk_requests[last.id].accepted_by)
    /\ walk_requests[last.id].accepted_by # Some(last.user)
    /\ walk_requests[last.id].started_at = None

\* C10: finish_walk(request, W) returns Ok exactly when the request exists
\* and accepted_by = W; it then sets finished_at and nothing else, and
\* otherwise leaves the collection, finished_at included, as it was.
C10_FinishByHolderOnly ==
    [][\A i \in Ids :
          (last'.id = i /\ last'.verb = "finish_walk")
             => /\ last'.ok <=> /\ i \in DOMAIN walk_requests
                                /\ walk_requests[i].accepted_by = Some(last'.user)
                /\ last'.ok =>
                      /\ IsSome(walk_requests'[i].finished_at)
                      /\ [walk_requests'[i] EXCEPT !.finished_at = None]
                            = [walk_requests[i] EXCEPT !.finished_at = None]
                /\ ~last'.ok => walk_requests' = walk_requests]_vars

\* A walker who is not the holder has tried to finish a walk that the
\* holder has started, and finished_at is still unset.
C10_Witness ==
    /\ last.verb = "finish_walk"
    /\ ~last.ok
    /\ last.id \in DOMAIN walk_requests
    /\ IsSome(walk_requests[last.id].accepted_by)
    /\ walk_requests[last.id].accepted_by # Some(last.user)
    /\ IsSome(walk_requests[last.id].started_at)
    /\ walk_requests[last.id].finished_at = None

\* C11 (withdraw bid): remove_acceptance(request, W) fails exactly when the
\* request is absent or accepted_by = W; otherwise it returns Ok, W is not
\* in acceptances afterwards and accepted_by is unchanged.
C11_WithdrawBid ==
    [][\A i \in Ids :
          (last'.id = i /\ last'.verb = "remove_acceptance")
             => /\ ~last'.ok <=> \/ i \notin DOMAIN walk_requests
                                 \/ walk_requests[i].accepted_by = Some(last'.user)
                /\ last'.ok => /\ last'.user \notin Pool(walk_requests'[i])
                               /\ walk_requests'[i].accepted_by
                                     = walk_requests[i].accepted_by]_vars

\* C12: cancel_unaccepted_request returns Ok exactly when the request exists
\* and accepted_by is unset, and then canceled_at is set; on a claimed
\* request it fails and canceled_at stays as it was.
C12_CancelUnaccepted ==
    [][\A i \in Ids :
          (last'.id = i /\ last'.verb = "cancel_unaccepted_request")
             => /\ last'.ok <=> /\ i \in DOMAIN walk_requests
                                /\ walk_requests[i].accepted_by = None
                /\ last'.ok => IsSome(walk_requests'[i].canceled_at)
                /\ ~last'.ok => walk_requests' = walk_requests]_vars

\* C13: cancel_accepted_request(request, W) returns Ok exactly when the
\* request exists and accepted_by = W, and then canceled_at is set; when
\* accepted_by is unset or another walker it fails and canceled_at stays as
\* it was.
C13_CancelAccepted ==
    [][\A i \in Ids :
          (last'.id = i /\ last'.verb = "cancel_accepted_request")
             => /\ last'.ok <=> /\ i \in DOMAIN walk_requests
                                /\ walk_requests[i].accepted_by = Some(last'.user)
                /\ last'.ok => IsSome(walk_requests'[i].canceled_at)
                /\ ~last'.ok => walk_requests' = walk_requests]_vars

\* The current-state predicate of each lifecycle verb, as the table of
\* verbs states it.
Precondition(verb, d, user) ==
    CASE verb = "accept"                    -> d.accepted_by = None
      [] verb = "remove_acceptance"         -> d.accepted_by # Some(user)
      [] verb = "assign_accepter"           -> /\ d.accepted_by = None
                                               /\ user \in Pool(d)
      [] verb = "cancel_unaccepted_request" -> d.accepted_by = None
      [] OTHER                              -> d.accepted_by = Some(user)

\* An id that no stored request has.
NoSuchId == "none"

\* The call of a lifecycle verb, by name.
Invoke(verb, id, user) ==
    CASE verb = "accept"                    -> accept(id, user)
      [] verb = "remove_acceptance"         -> remove_acceptance(id, user)
      [] verb = "assign_accepter"           -> assign_accepter(id, user)
      [] verb = "dismiss_accepter"          -> dismiss_accepter(id, user)
      [] verb = "cancel_unaccepted_request" -> cancel_unaccepted_request(id)
      [] verb = "cancel_accepted_request"   -> cancel_accepted_request(id, user)
      [] verb = "resign_acceptance"         -> resign_acceptance(id, user)
      [] verb = "start_walk"                -> start_walk(id, user)
      [] verb = "finish_walk"               -> finish_walk(id, user)

\* C14 (NotFound and PreconditionFailed are told apart): when a lifecycle
\* verb fails on a request that exists but does not satisfy the verb's
\* predicate, the failure it returns differs from the failure the same verb
\* returns for an id that does not exist.
C14_NotFoundDistinct ==
    \A i \in Ids :
       ( /\ last.id = i
         /\ last.verb \in LifecycleVerbs
         /\ ~last.ok
         /\ i \in DOMAIN walk_requests
         /\ ~Precondition(last.verb, walk_requests[i], last.user) )
          => ~ENABLED ( /\ Invoke(last.verb, NoSuchId, last.user)
                        /\ last'.msg = last.msg )

\* C15 (one cause per verb): two different lifecycle verbs that fail one
\* after the other never return the same reason string.
C15_DistinctReasons ==
    [][( /\ last.verb \in LifecycleVerbs
         /\ last'.verb \in LifecycleVerbs
         /\ last.verb # last'.verb
         /\ ~last.ok
         /\ ~last'.ok )
          => last'.msg # last.msg]_vars

\* C16 (a failed verb is a no-op): whenever a lifecycle verb returns a
\* failure, every document of the collection, the targeted one included, is
\* exactly as it was before the call.
C16_FailureIsNoOp ==
    [][(last'.verb \in LifecycleVerbs /\ ~last'.ok)
          => walk_requests' = walk_requests]_vars

C16_Witness ==
    /\ last.verb = "dismiss_accepter"
    /\ ~last.ok
    /\ last.id = "A"
    /\ last.user = "Y"
    /\ DOMAIN walk_requests = {"A", "B"}
    /\ walk_requests["A"].accepted_by = Some("X")
    /\ walk_requests["B"].accepted_by = Some("Y")

\* C17 (status derivation): the status a read returns is decided by which of
\* canceled_at, accepted_at, started_at, finished_at are set, first match in
\* the order Canceled, Accepted, Started, Finished, and is Waiting when none
\* is set; the stored document has no status field.
C17_StatusDerivation ==
    \A i \in DOMAIN walk_requests :
       LET d == walk_requests[i]
           r == get_walk_request(walk_requests, i)[1]
       IN  /\ "status" \notin DOMAIN d
           /\ IsSome(d.canceled_at) => r.status = "Canceled"
           /\ (d.canceled_at = None /\ IsSome(d.accepted_at))
                 => r.status = "Accepted"
           /\ (d.canceled_at = None /\ d.accepted_at = None
                  /\ IsSome(d.started_at)) => r.status = "Started"
           /\ (d.canceled_at = None /\ d.accepted_at = None
                  /\ d.started_at = None /\ IsSome(d.finished_at))
                 => r.status = "Finished"
           /\ (d.canceled_at = None /\ d.accepted_at = None
                  /\ d.started_at = None /\ d.finished_at = None)
                 => r.status = "Waiting"

C17_Witness ==
    \E i \in DOMAIN walk_requests :
       /\ walk_requests[i].canceled_at = None
       /\ IsSome(walk_requests[i].accepted_at)
       /\ IsSome(walk_requests[i].started_at)
       /\ IsSome(walk_requests[i].finished_at)
       /\ get_walk_request(walk_requests, i)[1].status = "Accepted"

\* The verbs by which a walker's claim is given up.
RelinquishVerbs == {"resign_acceptance", "dismiss_accepter"}

\* C18 (Accepted hides the walk): a request whose status reads Accepted
\* never reads Started or Finished afterwards, whatever verbs follow.
C18_NeverWalkStatus ==
    [][\A i \in DOMAIN walk_requests \cap DOMAIN walk_requests' :
          WalkRequestStatus(walk_requests[i]) = "Accepted"
             => WalkRequestStatus(walk_requests'[i])
                   \notin {"Started", "Finished"}]_vars

\* C19 (relinquishing returns to Waiting): after a successful
\* resign_acceptance or dismiss_accepter on a request that is not canceled,
\* the request's status reads Waiting and its claim is vacant, so it can be
\* claimed again.
C19_RelinquishReturnsToWaiting ==
    \A i \in DOMAIN walk_requests :
       ( /\ last.id = i
         /\ last.verb \in RelinquishVerbs
         /\ last.ok
         /\ walk_requests[i].canceled_at = None )
          => /\ get_walk_request(walk_requests, i)[1].status = "Waiting"
             /\ walk_requests[i].accepted_by = None

\* The ids of the requests created_by owner, newest first, in each of the
\* orders that equal created_at leave open.
NewestFirst(owner) ==
    LET mine == {i \in DOMAIN walk_requests : walk_requests[i].created_by = owner}
    IN  {f \in Arrangements(mine) :
            \A j, k \in 1..Cardinality(mine) :
               j < k => walk_requests[f[j]].created_at
                           >= walk_requests[f[k]].created_at}

\* C20 (owner's page): my_walk_requests(owner, {skip, limit}) returns exactly
\* the requests at positions skip .. skip+limit-1 of the owner's requests
\* ordered by created_at descending.
C20_MyRequestsPage ==
    last.verb = "my_walk_requests"
       => \E f \in NewestFirst(last.user) :
             [k \in DOMAIN last.rows |-> last.rows[k].id]
                = SubSeq(f, last.page.skip + 1,
                         IF last.page.skip + last.page.limit < Len(f)
                         THEN last.page.skip + last.page.limit ELSE Len(f))

\* C21 (nearby listing): nearby_walk_requests returns requests that lie
\* within the radius of the origin and have accepted_by unset, each with its
\* distance from the origin, no request twice, and as many of them as the
\* page asks for and the matching requests beyond the skip allow.
C21_NearbyExact ==
    last.verb = "nearby_walk_requests"
       => LET origin == <<last.query.nearby[1][1], last.query.nearby[1][2]>>
              radius == last.query.nearby[1][3]
              away(i) == Distance(walk_requests[i].location.coordinates, origin)
              eligible == {i \in DOMAIN walk_requests :
                              /\ walk_requests[i].accepted_by = None
                              /\ away(i) <= radius}
              rest == IF Cardinality(eligible) > last.page.skip
                      THEN Cardinality(eligible) - last.page.skip ELSE 0
          IN  /\ last.ok
              /\ \A k \in DOMAIN last.rows :
                    /\ last.rows[k].id \in eligible
                    /\ last.rows[k].distance = Some(away(last.rows[k].id))
              /\ \A j, k \in DOMAIN last.rows :
                    j # k => last.rows[j].id # last.rows[k].id
              /\ Len(last.rows) = IF rest < last.page.limit THEN rest
                                  ELSE last.page.limit

\* A page of two was asked for near two requests at one place; the claimed
\* one is left out and the other is returned with its distance.
C21_Witness ==
    /\ last.verb = "nearby_walk_requests"
    /\ Len(last.rows) = 1
    /\ last.rows[1].id = "A"
    /\ last.rows[1].distance = Some(1)
    /\ last.page = [limit |-> 2, skip |-> 0]
    /\ DOMAIN walk_requests = {"A", "B"}
    /\ walk_requests["B"].accepted_by = Some("X")
    /\ walk_requests["B"].location = walk_requests["A"].location

\* C22 (malformed proximity term): a query whose nearby term is not exactly
\* three numbers is rejected with the validation error, returns no row and
\* leaves every document as it was; a nearby term of three numbers is never
\* rejected for its length.
C22_NearbyTriple ==
    [][(last'.verb = "query_walk_requests" /\ IsSome(last'.query.nearby))
          => IF Len(last'.query.nearby[1]) # 3
             THEN /\ ~last'.ok
                  /\ last'.msg = "Invalid nearby query, expect [f64;3]"
                  /\ last'.rows = <<>>
                  /\ walk_requests' = walk_requests
             ELSE last'.msg # "Invalid nearby query, expect [f64;3]"]_vars

C22_Witness ==
    /\ last.verb = "query_walk_requests"
    /\ last.query.nearby = Some(<<0, 0, 1, 0>>)
    /\ ~last.ok
    /\ \E i \in DOMAIN walk_requests :
          walk_requests[i].location.coordinates = <<0, 0>>

\* C29 (proximity and owner together): a query with both a nearby term and
\* a created_by term returns no request whose created_by differs from the
\* owner asked for.
C29_NearbyAndOwner ==
    ( /\ last.verb = "query_walk_requests"
      /\ last.ok
      /\ IsSome(last.query.nearby)
      /\ IsSome(last.query.created_by) )
       => \A k \in DOMAIN last.rows :
             walk_requests[last.rows[k].id].created_by = last.query.created_by[1]

\* C30 (sort before page): a proximity query with a sort and a pagination
\* returns the page [skip, skip+limit) of the list of all requests within
\* the radius in the sort's order.
C30_SortThenPage ==
    ( /\ last.verb = "query_walk_requests"
      /\ last.ok
      /\ IsSome(last.query.nearby)
      /\ last.query.created_by = None
      /\ last.sort_by = Some([field |-> "created_at", order |-> "Desc"])
      /\ last.page # NoPage )
       => LET origin == <<last.query.nearby[1][1], last.query.nearby[1][2]>>
              within == {i \in DOMAIN walk_requests :
                            Distance(walk_requests[i].location.coordinates, origin)
                               <= last.query.nearby[1][3]}
          IN  \E f \in Arrangements(within) :
                 /\ \A j, k \in 1..Cardinality(within) :
                       j < k => walk_requests[f[j]].created_at
                                   >= walk_requests[f[k]].created_at
                 /\ [k \in DOMAIN last.rows |-> last.rows[k].id]
                       = SubSeq(f, last.page.skip + 1,
                                IF last.page.skip + last.page.limit < Len(f)
                                THEN last.page.skip + last.page.limit
                                ELSE Len(f))

\* C23 (dogs are a value copy): update_dog and delete_dog on a Dog record
\* leave every existing walk request, and so its dogs list, as it was; the
\* list keeps the values the request was created with.
C23_DogsAreCopies ==
    [][last'.verb \in {"update_dog", "delete_dog"} =>
          /\ DOMAIN walk_requests' = DOMAIN walk_requests
          /\ \A i \in DOMAIN walk_requests :
                walk_requests'[i].dogs = walk_requests[i].dogs]_vars

\* A dog record was renamed or deleted, and a request still lists the dog
\* as it was when the request was posted.
C23_Witness ==
    /\ last.verb \in {"update_dog", "delete_dog"}
    /\ last.ok /\ last.rows = <<TRUE>>
    /\ \E i \in DOMAIN walk_requests :
          \E k \in DOMAIN walk_requests[i].dogs :
             /\ walk_requests[i].dogs[k]._id = last.id
             /\ last.id \in DOMAIN dogs =>
                   dogs[last.id].name # walk_requests[i].dogs[k].name

\* C24 (create inserts a Waiting request): create_walk_request adds one
\* document under a new id with accepted_by, accepted_at, canceled_at,
\* started_at and finished_at unset and an empty bid pool, its derived
\* status reads Waiting, and every request that existed is unchanged.
C24_CreateIsWaiting ==
    [][last'.verb = "create_walk_request" =>
          /\ last'.ok
          /\ last'.id \notin DOMAIN walk_requests
          /\ DOMAIN walk_requests' = DOMAIN walk_requests \cup {last'.id}
          /\ LET d == walk_requests'[last'.id]
             IN  /\ d.accepted_by = None
                 /\ d.accepted_at = None
                 /\ d.canceled_at = None
                 /\ d.started_at = None
                 /\ d.finished_at = None
                 /\ Pool(d) = {}
                 /\ get_walk_request(walk_requests', last'.id)[1].status = "Waiting"
          /\ \A i \in DOMAIN walk_requests : walk_requests'[i] = walk_requests[i]]_vars

\* A request was created next to one that a walker holds and has started.
C24_Witness ==
    /\ last.verb = "create_walk_request"
    /\ last.id \in DOMAIN walk_requests
    /\ \E i \in DOMAIN walk_requests \ {last.id} :
          /\ IsSome(walk_requests[i].accepted_by)
          /\ IsSome(walk_requests[i].started_at)

\* C28 (dismiss keeps the bid, resign withdraws it): a successful
\* dismiss_accepter(W) leaves acceptances as it was, and an assign_accepter(W)
\* that follows it succeeds when W is in the pool; a successful
\* resign_acceptance(W) removes W, and only W, from acceptances, and an
\* assign_accepter(W) that follows it fails; neither verb, succeeding or
\* failing, changes canceled_at, started_at or finished_at.
C28_DismissKeepsResignPulls ==
    [][\A i \in Ids :
          /\ (last'.id = i /\ last'.verb \in RelinquishVerbs /\ Kept(i)) =>
                /\ walk_requests'[i].canceled_at = walk_requests[i].canceled_at
                /\ walk_requests'[i].started_at = walk_requests[i].started_at
                /\ walk_requests'[i].finished_at = walk_requests[i].finished_at
          /\ (last'.id = i /\ last'.verb = "dismiss_accepter" /\ last'.ok) =>
                walk_requests'[i].acceptances = walk_requests[i].acceptances
          /\ (last'.id = i /\ last'.verb = "resign_acceptance" /\ last'.ok) =>
                /\ last'.user \notin Pool(walk_requests'[i])
                /\ Pool(walk_requests'[i]) = Pool(walk_requests[i]) \ {last'.user}
          /\ (/\ last.id = i /\ last.verb = "dismiss_accepter" /\ last.ok
              /\ last'.id = i /\ last'.verb = "assign_accepter"
              /\ last'.user = last.user /\ last.user \in Pool(walk_requests[i])) =>
                /\ last'.ok
                /\ walk_requests'[i].accepted_by = Some(last.user)
          /\ (/\ last.id = i /\ last.verb = "resign_acceptance" /\ last.ok
              /\ last'.id = i /\ last'.verb = "assign_accepter"
              /\ last'.user = last.user) =>
                /\ ~last'.ok
                /\ walk_requests'[i] = walk_requests[i]]_vars

\* The owner dismissed a walker who had been assigned from the bid pool of a
\* started walk: the walker is still in the pool, next to another bidder.
C28_Witness ==
    /\ last.verb = "dismiss_accepter" /\ last.ok
    /\ last.id \in DOMAIN walk_requests
    /\ last.user \in Pool(walk_requests[last.id])
    /\ Cardinality(Pool(walk_requests[last.id])) > 1
    /\ IsSome(walk_requests[last.id].started_at)

\* Caller c has entered the verb naming walker w.
Entered(c, verb, w) == calls[c].verb = verb /\ calls[c].user = w

\* Caller c's call has returned.
Done(c) == calls[c].status \in {"ok", "err"}

\* The request as caller c's handler found it on entry.
Found(c) == calls[c].before[1]

\* Nobody but the callers of S has made a call.
OnlyCallers(S) == \A c \in Callers \ S : calls[c].status = "idle"

\* The owner's dismiss_accepter(w) and w's resign_acceptance were both
\* entered while w held the request, and nobody else has called.
DismissResignRaced(w) ==
    /\ Entered("owner", "dismiss_accepter", w)
    /\ Entered(w, "resign_acceptance", w)
    /\ Found("owner").accepted_by = Some(w)
    /\ Found(w).accepted_by = Some(w)
    /\ OnlyCallers({"owner", w})

\* A request as found is unclaimed with w in its bid pool.
Bidding(d, w) ==
    d.accepted_by = None /\ IsSome(d.acceptances) /\ w \in Range(d.acceptances[1])

\* The owner's assign_accepter(w) and w's remove_acceptance were both
\* entered while the request was unclaimed with w in acceptances, and
\* nobody else has called.
AssignWithdrawRaced(w) ==
    /\ Entered("owner", "assign_accepter", w)
    /\ Entered(w, "remove_acceptance", w)
    /\ Bidding(Found("owner"), w)
    /\ Bidding(Found(w), w)
    /\ OnlyCallers({"owner", w})

\* The calls of S that have returned Ok.
Won(S) == {c \in S : calls[c].status = "ok"}

\* C25 (dismiss/resign race): when the owner's dismiss_accepter(W) and W's
\* resign_acceptance are both entered while accepted_by = W, never both
\* succeed; once both have returned exactly one has succeeded and the other
\* failed, and accepted_by and accepted_at are unset.
C25_DismissResignRace ==
    \A w \in WalkersPair :
       DismissResignRaced(w) =>
          /\ Cardinality(Won({"owner", w})) <= 1
          /\ (Done("owner") /\ Done(w)) =>
                /\ Cardinality(Won({"owner", w})) = 1
                /\ walk_requests["A"].accepted_by = None
                /\ walk_requests["A"].accepted_at = None

\* The dismissal and the resignation raced over a claim of a pooled walker;
\* the resignation ran first and won, the dismissal failed.
C25_Witness ==
    \E w \in WalkersPair :
       /\ DismissResignRaced(w)
       /\ IsSome(Found(w).acceptances)
       /\ w \in Range(Found(w).acceptances[1])
       /\ calls["owner"].status = "err"
       /\ calls[w].status = "ok"

\* C26 (assign/withdraw race): when the owner's assign_accepter(W) and W's
\* remove_acceptance are both entered while the request is unclaimed with W
\* in acceptances, never both succeed and once both have returned exactly
\* one has succeeded; at no point is accepted_by = W while W is absent from
\* acceptances.
C26_AssignWithdrawRace ==
    \A w \in WalkersPair :
       AssignWithdrawRaced(w) =>
          /\ Cardinality(Won({"owner", w})) <= 1
          /\ (Done("owner") /\ Done(w)) => Cardinality(Won({"owner", w})) = 1
          /\ walk_requests["A"].accepted_by = Some(w) =>
                w \in Pool(walk_requests["A"])

\* The assignment and the withdrawal raced; the withdrawal ran first and
\* won, and the assignment failed on the emptied bid.
C26_Witness ==
    \E w \in WalkersPair :
       /\ AssignWithdrawRaced(w)
       /\ calls["owner"].status = "err"
       /\ calls[w].status = "ok"
       /\ w \notin Pool(walk_requests["A"])
       /\ walk_requests["A"].accepted_by = None

\* Walker x's accept and the owner's assign_accepter(y) were both entered
\* while the request was unclaimed with y in acceptances, and nobody else
\* has called.
ClaimAssignRaced(x, y) ==
    /\ Entered(x, "accept", x)
    /\ Entered("owner", "assign_accepter", y)
    /\ Bidding(Found(x), y)
    /\ Bidding(Found("owner"), y)
    /\ OnlyCallers({"owner", x})

\* C27 (claim/assign race): when walker X's accept and the owner's
\* assign_accepter(Y) are both entered on an unclaimed request with Y in
\* acceptances, never both succeed; once both have returned exactly one has
\* succeeded and accepted_by is the winner's walker: X if the accept won, Y
\* if the assignment won.
C27_ClaimAssignRace ==
    \A x, y \in WalkersPair :
       ClaimAssignRaced(x, y) =>
          /\ Cardinality(Won({"owner", x})) <= 1
          /\ (Done("owner") /\ Done(x)) =>
                /\ Cardinality(Won({"owner", x})) = 1
                /\ calls[x].status = "ok" =>
                      walk_requests["A"].accepted_by = Some(x)
                /\ calls["owner"].status = "ok" =>
                      walk_requests["A"].accepted_by = Some(y)

\* A self-claim and an assignment of another walker raced; the assignment
\* won.
C27_Witness ==
    \E x, y \in WalkersPair :
       /\ x # y
       /\ ClaimAssignRaced(x, y)
       /\ calls["owner"].status = "ok"
       /\ calls[x].status = "err"
       /\ walk_requests["A"].accepted_by = Some(y)

\* The requests on which a lifecycle verb called by user returns Ok, as a
\* condition on the stored document alone.
OkOn(verb, d, user) ==
    CASE verb \in {"accept"} -> d.accepted_by = None
      [] verb = "assign_accepter" -> d.accepted_by = None /\ user \in Pool(d)
      [] verb = "remove_acceptance" ->
            d.accepted_by # Some(user) /\ user \in Pool(d)
      [] verb \in {"cancel_unaccepted_request", "cancel_accepted_request"} -> FALSE
      [] OTHER -> d.accepted_by = Some(user)

\* C31 (location samples never contend): record_walking_location succeeds
\* whatever the state of the walk request, appends one WalkingLocation with
\* the reference it was given, and leaves every WalkRequest and every
\* existing WalkingLocation as they were; no lifecycle verb touches the
\* recorded samples, and whether a lifecycle verb succeeds depends on the
\* request document alone, however many samples have been recorded.
C31_LocationAppendOnly ==
    [][/\ last'.verb = "record_walking_location" =>
             /\ last'.ok
             /\ walk_requests' = walk_requests
             /\ Len(walking_locations') = Len(walking_locations) + 1
             /\ SubSeq(walking_locations', 1, Len(walking_locations))
                   = walking_locations
             /\ walking_locations'[Len(walking_locations')].walk_request_id
                   = last'.id
       /\ last'.verb \in LifecycleVerbs =>
             /\ walking_locations' = walking_locations
             /\ last'.ok <=> /\ last'.id \in DOMAIN walk_requests
                             /\ OkOn(last'.verb, walk_requests[last'.id], last'.user)
       /\ \A i \in Ids :
             Len(walking_locations) < MaxLocations =>
                ENABLED record_walking_location(i, 0, 0)]_vars

\* A second sample was recorded for a request that nobody holds and that was
\* canceled.
C31_Witness ==
    /\ last.verb = "record_walking_location"
    /\ Len(walking_locations) = 2
    /\ last.id \in DOMAIN walk_requests
    /\ walk_requests[last.id].accepted_by = None
    /\ IsSome(walk_requests[last.id].canceled_at)

\* C32 (one document per call): a lifecycle verb changes no request but the
\* one whose id it was given, changes the set of requests not at all, and
\* succeeds or fails by the state of that one request alone, so calls on
\* different ids do not affect each other.
C32_OneDocumentPerCall ==
    [][last'.verb \in LifecycleVerbs =>
          /\ DOMAIN walk_requests' = DOMAIN walk_requests
          /\ \A i \in DOMAIN walk_requests :
                i # last'.id => walk_requests'[i] = walk_requests[i]
          /\ last'.ok <=> /\ last'.id \in DOMAIN walk_requests
                          /\ OkOn(last'.verb, walk_requests[last'.id], last'.user)]_vars

\* A walker resigned from one request while the other request, held by the
\* same walker, stayed as it was.
C32_Witness ==
    /\ last.verb = "resign_acceptance" /\ last.ok
    /\ DOMAIN walk_requests = IdsPair
    /\ walk_requests[last.id].accepted_by = None
    /\ \E i \in IdsPair \ {last.id} :
          /\ walk_requests[i].accepted_by = Some(last.user)
          /\ IsSome(walk_requests[i].started_at)

C34_FinishedImpliesStarted ==
    \A i \in DOMAIN walk_requests :
       IsSome(walk_requests[i].finished_at) => IsSome(walk_requests[i].started_at)

\* C35 (a walk in progress has a walker): in every reachable state, a request
\* whose started_at is set and whose finished_at is unset has accepted_by
\* set.
C35_WalkInProgressHasWalker ==
    \A i \in DOMAIN walk_requests :
       (IsSome(walk_requests[i].started_at) /\ walk_requests[i].finished_at = None)
          => IsSome(walk_requests[i].accepted_by)

\* C36 (lifecycle timestamps are never cleared): no service verb takes a
\* request away or unsets its canceled_at, started_at or finished_at; once
\* set, each of the three stays set.
C36_TimestampsStay ==
    [][\A i \in DOMAIN walk_requests :
          /\ i \in DOMAIN walk_requests'
          /\ IsSome(walk_requests[i].canceled_at)
                => IsSome(walk_requests'[i].canceled_at)
          /\ IsSome(walk_requests[i].started_at)
                => IsSome(walk_requests'[i].started_at)
          /\ IsSome(walk_requests[i].finished_at)
                => IsSome(walk_requests'[i].finished_at)]_vars

\* A walker gave up a request that was canceled, started and finished: the
\* claim is gone and the three timestamps are still there.
C36_Witness ==
    /\ last.verb \in RelinquishVerbs /\ last.ok
    /\ last.id \in DOMAIN walk_requests
    /\ walk_requests[last.id].accepted_by = None
    /\ walk_requests[last.id].accepted_at = None
    /\ IsSome(walk_requests[last.id].canceled_at)
    /\ IsSome(walk_requests[last.id].started_at)
    /\ IsSome(walk_requests[last.id].finished_at)

\* C37 (lifecycle timestamps are write-once): start_walk on a request whose
\* started_at is set, finish_walk on one whose finished_at is set and a
\* cancel verb on one whose canceled_at is set fail and leave the request as
\* it was.
C37_WriteOnce ==
    [][\A i \in Ids :
          (/\ last'.id = i /\ i \in DOMAIN walk_requests
           /\ \/ last'.verb = "start_walk" /\ IsSome(walk_requests[i].started_at)
              \/ last'.verb = "finish_walk" /\ IsSome(walk_requests[i].finished_at)
              \/ /\ last'.verb \in {"cancel_unaccepted_request",
                                     "cancel_accepted_request"}
                 /\ IsSome(walk_requests[i].canceled_at))
             => /\ ~last'.ok
                /\ walk_requests'[i] = walk_requests[i]]_vars

=============================================================================
